---- MODULE Spec2Model ----
(***************************************************************************)
(* Model of backend/server.js: the /api/analyze handler, scrapeAmazonData  *)
(* (browser session lifecycle and per-listing field extraction) and        *)
(* calculateScores.                                                        *)
(***************************************************************************)
EXTENDS Integers, Sequences, FiniteSets, TLC

VARIABLES
    \* ---- scoring (calculateScores on one data record)
    sPc, sData, sScores,
    \* ---- page parsing (the synchronous part of scrapeAmazonData on one page)
    xPc, xPage, xData,
    \* ---- request handling (one entry per request)
    pc, keyword, browser, open, nextId, pending, response, launches, scored, sent

scoreVars == <<sPc, sData, sScores>>
scrapeVars == <<xPc, xPage, xData>>
serverVars == <<pc, keyword, browser, open, nextId, pending, response, launches, scored, sent>>
vars == <<scoreVars, scrapeVars, serverVars>>

----------------------------------------------------------------------------
(* JavaScript numbers: the naturals the parsers produce, and NaN.          *)

NaN == -1

\* Every comparison with NaN is false.
JsLe(a, b) == a # NaN /\ b # NaN /\ a <= b
JsLt(a, b) == a # NaN /\ b # NaN /\ a < b
JsGe(a, b) == a # NaN /\ b # NaN /\ a >= b
JsGt(a, b) == a # NaN /\ b # NaN /\ a > b

\* Math.round(num / den) for num >= 0, den > 0: nearest integer, halves up.
MathRound(num, den) == (2 * num + den) \div (2 * den)

----------------------------------------------------------------------------
(* Strings are sequences of one-character strings. Text that regular       *)
(* expressions run over is a sequence of lexical tokens [k, s]: k is the   *)
(* token kind and s the characters of a number token ("num": a maximal run *)
(* of [0-9,]; "dec": a maximal run of [0-9.]). Keyword tokens stand for    *)
(* the literal words of the patterns in any letter case.                   *)

Digits == {"0", "1", "2", "3", "4", "5", "6", "7", "8", "9"}

DigitVal(c) ==
    CASE c = "0" -> 0 [] c = "1" -> 1 [] c = "2" -> 2 [] c = "3" -> 3
      [] c = "4" -> 4 [] c = "5" -> 5 [] c = "6" -> 6 [] c = "7" -> 7
      [] c = "8" -> 8 [] c = "9" -> 9

Undefined == "<undefined>"

Tok(kind) == [k |-> kind, s |-> <<>>]
Num(chars) == [k |-> "num", s |-> chars]
Dec(chars) == [k |-> "dec", s |-> chars]

NoMatch == [found |-> FALSE, g1 |-> <<>>]
Hit(chars) == [found |-> TRUE, g1 |-> chars]

Min(S) == CHOOSE x \in S : \A y \in S : x <= y

IsWs(t) == t.k \in {"sp", "nl"}

\* The first position >= i that holds no whitespace token (Len + 1 at the end).
RECURSIVE SkipWs(_, _)
SkipWs(text, i) ==
    IF i <= Len(text) /\ IsWs(text[i]) THEN SkipWs(text, i + 1) ELSE i

KindAt(text, i) == IF i \in DOMAIN text THEN text[i].k ELSE "<end>"

\* String.prototype.trim
RECURSIVE TrimLeft(_)
TrimLeft(str) ==
    IF str # <<>> /\ Head(str) = " " THEN TrimLeft(Tail(str)) ELSE str

RECURSIVE TrimRight(_)
TrimRight(str) ==
    IF str # <<>> /\ str[Len(str)] = " "
        THEN TrimRight(SubSeq(str, 1, Len(str) - 1))
        ELSE str

Trim(str) == TrimRight(TrimLeft(str))

\* str.replace(/,/g, '')
StripCommas(chars) == SelectSeq(chars, LAMBDA c : c # ",")

\* parseInt of a string of decimal digits: NaN when there is no digit.
RECURSIVE DigitsValue(_)
DigitsValue(chars) ==
    IF chars = <<>> THEN 0
    ELSE 10 * DigitsValue(SubSeq(chars, 1, Len(chars) - 1)) + DigitVal(chars[Len(chars)])

RECURSIVE LeadingDigits(_)
LeadingDigits(chars) ==
    IF chars # <<>> /\ Head(chars) \in Digits
        THEN <<Head(chars)>> \o LeadingDigits(Tail(chars))
        ELSE <<>>

parseInt(chars) ==
    IF LeadingDigits(chars) = <<>> THEN NaN ELSE DigitsValue(LeadingDigits(chars))

\* parseFloat of a run of [0-9.], in tenths (the model's texts carry at most
\* one fractional digit): digits, then at most one "." and its digits; NaN
\* when no digit leads and none follows a leading ".".
parseFloat(chars) ==
    LET int == LeadingDigits(chars)
        rest == SubSeq(chars, Len(int) + 1, Len(chars))
        frac == IF rest # <<>> /\ Head(rest) = "." THEN LeadingDigits(Tail(rest)) ELSE <<>>
    IN  IF int = <<>> /\ frac = <<>> THEN NaN
        ELSE 10 * DigitsValue(int) + (IF frac = <<>> THEN 0 ELSE DigitVal(frac[1]))

\* cheerio: a selection is the sequence of the matched nodes' texts.
First(selection) == IF selection = <<>> THEN <<>> ELSE <<selection[1]>>

RECURSIVE TextOf(_)
TextOf(selection) ==
    IF selection = <<>> THEN <<>> ELSE Head(selection) \o TextOf(Tail(selection))

\* a || b on objects: every object, an empty selection included, is truthy.
Truthy(selection) == TRUE

OrObject(a, b) == IF Truthy(a) THEN a ELSE b

\* a || b on text: the empty string is falsy.
OrText(a, b) == IF a = <<>> THEN b ELSE a

\* a || b on an attribute value: undefined and the empty string are falsy.
OrAttr(a, b) == IF a = Undefined \/ a = "" THEN b ELSE a

----------------------------------------------------------------------------
(* The regular expressions of scrapeAmazonData, as leftmost matches over   *)
(* token sequences. Each yields NoMatch or Hit(capture group 1).           *)

\* /of\s+(?:over\s+)?([0-9,]+)\s+results/i
TotalAt(text, i) ==
    LET a == SkipWs(text, i + 1)
        b == IF KindAt(text, a) = "over" /\ SkipWs(text, a + 1) > a + 1
                THEN SkipWs(text, a + 1) ELSE a
        c == SkipWs(text, b + 1)
    IN  /\ KindAt(text, i) = "of"
        /\ a > i + 1
        /\ KindAt(text, b) = "num"
        /\ c > b + 1
        /\ KindAt(text, c) = "results"

TotalCapture(text, i) ==
    LET a == SkipWs(text, i + 1)
    IN  IF KindAt(text, a) = "over" /\ SkipWs(text, a + 1) > a + 1
            THEN text[SkipWs(text, a + 1)].s ELSE text[a].s

totalPattern(text) ==
    LET starts == {i \in DOMAIN text : TotalAt(text, i)}
    IN  IF starts = {} THEN NoMatch ELSE Hit(TotalCapture(text, Min(starts)))

\* The positions j after i of a "#" directly followed by a number, with no
\* line break between i and j: where .*?[#]([0-9,]+) can end up.
HashAfter(text, i) ==
    {j \in (i + 1)..Len(text) :
        /\ KindAt(text, j) = "#"
        /\ KindAt(text, j + 1) = "num"
        /\ \A m \in (i + 1)..(j - 1) : text[m].k # "nl"}

\* /Best\s*Sellers?\s*Rank.*?[#]([0-9,]+)/i
bsrPattern1(text) ==
    LET starts == {i \in DOMAIN text : text[i].k = "BSR" /\ HashAfter(text, i) # {}}
    IN  IF starts = {} THEN NoMatch
        ELSE Hit(text[Min(HashAfter(text, Min(starts))) + 1].s)

\* /[#]([0-9,]+)\s+in\s+Books/i
bsrPattern2(text) ==
    LET starts == {i \in DOMAIN text :
                      /\ text[i].k = "#"
                      /\ KindAt(text, i + 1) = "num"
                      /\ SkipWs(text, i + 2) > i + 2
                      /\ KindAt(text, SkipWs(text, i + 2)) = "inBooks"}
    IN  IF starts = {} THEN NoMatch ELSE Hit(text[Min(starts) + 1].s)

\* /Amazon\s*Best\s*Sellers?\s*Rank.*?[#]([0-9,]+)/i
bsrPattern3(text) ==
    LET starts == {i \in DOMAIN text :
                      /\ text[i].k = "Amazon"
                      /\ KindAt(text, SkipWs(text, i + 1)) = "BSR"
                      /\ HashAfter(text, SkipWs(text, i + 1)) # {}}
    IN  IF starts = {} THEN NoMatch
        ELSE Hit(text[Min(HashAfter(text, SkipWs(text, Min(starts) + 1))) + 1].s)

\* /[#]([0-9,]+)/
bsrPattern4(text) ==
    LET starts == {i \in DOMAIN text : text[i].k = "#" /\ KindAt(text, i + 1) = "num"}
    IN  IF starts = {} THEN NoMatch ELSE Hit(text[Min(starts) + 1].s)

bsrPatterns(text) ==
    <<bsrPattern1(text), bsrPattern2(text), bsrPattern3(text), bsrPattern4(text)>>

\* /(\d+\.?\d*)\s*out\s*of/ (case-sensitive), on decimals of the form d+(.d*)?
ratingPattern(text) ==
    LET starts == {i \in DOMAIN text :
                      /\ text[i].k = "dec"
                      /\ LeadingDigits(text[i].s) # <<>>
                      /\ KindAt(text, SkipWs(text, i + 1)) = "out"
                      /\ KindAt(text, SkipWs(text, SkipWs(text, i + 1) + 1)) = "of"}
    IN  IF starts = {} THEN NoMatch ELSE Hit(text[Min(starts)].s)

\* /[\d.]+/
pricePattern(text) ==
    LET starts == {i \in DOMAIN text : text[i].k = "dec"}
    IN  IF starts = {} THEN NoMatch ELSE Hit(text[Min(starts)].s)

\* /\(([\d,]+)\s*(?:ratings?|reviews?)\)/i
parenPattern(text) ==
    LET starts == {i \in DOMAIN text :
                      /\ text[i].k = "("
                      /\ KindAt(text, i + 1) = "num"
                      /\ KindAt(text, SkipWs(text, i + 2)) = "ratings"
                      /\ KindAt(text, SkipWs(text, i + 2) + 1) = ")"}
    IN  IF starts = {} THEN NoMatch ELSE Hit(text[Min(starts) + 1].s)

\* /([\d,]+)\s+global\s+(?:ratings?|reviews?)/i
globalPattern(text) ==
    LET starts == {i \in DOMAIN text :
                      LET g == SkipWs(text, i + 1)
                          r == SkipWs(text, g + 1)
                      IN  /\ text[i].k = "num"
                          /\ g > i + 1
                          /\ KindAt(text, g) = "global"
                          /\ r > g + 1
                          /\ KindAt(text, r) = "ratings"}
    IN  IF starts = {} THEN NoMatch ELSE Hit(text[Min(starts)].s)

\* /([\d,]+)\s+(?:ratings?|reviews?)/i
reviewPattern(text) ==
    LET starts == {i \in DOMAIN text :
                      /\ text[i].k = "num"
                      /\ SkipWs(text, i + 1) > i + 1
                      /\ KindAt(text, SkipWs(text, i + 1)) = "ratings"}
    IN  IF starts = {} THEN NoMatch ELSE Hit(text[Min(starts)].s)

----------------------------------------------------------------------------
(* scrapeAmazonData, from the rendered page on: the total-results banner,  *)
(* the per-listing extraction loop and the averages.                       *)
(* An element is [h2aSpan, h2Normal, h2a, priceWhole, iconAlt: selections; *)
(* asin: attribute value; text: the tokens of element.text()].             *)
(* price and rating are in tenths.                                         *)

SampleCap == 20
MinTitleLength == 5
NoBsr == 999999

\* lines 114-121
extractTitle(element) ==
    LET titleElement == OrObject(First(element.h2aSpan),
                            OrObject(First(element.h2Normal), First(element.h2a)))
    IN  IF Len(titleElement) > 0 THEN Trim(TextOf(titleElement)) ELSE <<>>

\* line 123: the listing is kept
TitleOk(title) == ~(title = <<>> \/ Len(title) < MinTitleLength)

\* lines 129-137
extractPrice(element) ==
    IF Len(element.priceWhole) > 0
        THEN LET priceMatch == pricePattern(TextOf(element.priceWhole))
             IN  IF priceMatch.found THEN parseFloat(priceMatch.g1) ELSE 0
        ELSE 0

\* lines 148-154: the first pattern, in order, that matches
RECURSIVE FirstFound(_, _)
FirstFound(matches, dflt) ==
    IF matches = <<>> THEN dflt
    ELSE IF Head(matches).found THEN parseInt(StripCommas(Head(matches).g1))
    ELSE FirstFound(Tail(matches), dflt)

\* lines 140-154
extractBsr(text) == FirstFound(bsrPatterns(text), NoBsr)

\* lines 157-165
extractRating(element) ==
    IF Len(element.iconAlt) > 0
        THEN LET ratingMatch == ratingPattern(TextOf(element.iconAlt))
             IN  IF ratingMatch.found THEN parseFloat(ratingMatch.g1) ELSE 0
        ELSE 0

\* lines 168-190
extractReviews(text) ==
    LET parenMatch == parenPattern(text)
        r1 == IF parenMatch.found THEN parseInt(StripCommas(parenMatch.g1)) ELSE 0
        globalMatch == globalPattern(text)
        r2 == IF r1 = 0 /\ globalMatch.found
                 THEN parseInt(StripCommas(globalMatch.g1)) ELSE r1
        reviewMatch == reviewPattern(text)
    IN  IF r2 = 0 /\ reviewMatch.found
            THEN parseInt(StripCommas(reviewMatch.g1)) ELSE r2

\* lines 109-199: one pass of the loop body; <<>> when the listing is skipped
extractItem(element) ==
    LET title == extractTitle(element)
    IN  IF ~TitleOk(title) THEN <<>>
        ELSE <<[title |-> title,
                asin |-> OrAttr(element.asin, "N/A"),
                price |-> extractPrice(element),
                bsr |-> extractBsr(element.text),
                rating |-> extractRating(element),
                reviews |-> extractReviews(element.text)]>>

LoopBound_NoCap(bookElements) == Len(bookElements)

\* line 108
LoopBound(bookElements) ==
    IF Len(bookElements) < SampleCap THEN Len(bookElements) ELSE SampleCap

\* lines 104-205: items after the iterations i..LoopBound
RECURSIVE extractItems(_, _)
extractItems(bookElements, i) ==
    IF i > LoopBound(bookElements) THEN <<>>
    ELSE extractItem(bookElements[i]) \o extractItems(bookElements, i + 1)

\* lines 92-101
extractTotalResults(page) ==
    LET totalText == OrText(page.infoBar, page.infoSection)
        totalMatch == totalPattern(totalText)
    IN  IF totalText # <<>> /\ totalMatch.found
            THEN parseInt(StripCommas(totalMatch.g1)) ELSE 0

RECURSIVE Sum(_)
Sum(values) == IF values = <<>> THEN 0 ELSE Head(values) + Sum(Tail(values))

Field(items, name) == [i \in DOMAIN items |-> items[i][name]]

\* lines 208-218
Average(valid) == IF Len(valid) > 0 THEN MathRound(Sum(valid), Len(valid)) ELSE 0

ValidBsr(bsr) == JsGt(bsr, 0) /\ JsLt(bsr, NoBsr)
ValidReviews(reviews) == JsGt(reviews, 0) /\ JsLt(reviews, 1000000)
ValidRating(rating) == JsGt(rating, 0) /\ JsLe(rating, 50)

\* lines 89-227
parsePage(page) ==
    LET items == extractItems(page.results, 1)
    IN  [items |-> items,
         avgBSR |-> Average(SelectSeq(Field(items, "bsr"), ValidBsr)),
         avgRating |-> Average(SelectSeq(Field(items, "rating"), ValidRating)),
         avgReviews |-> Average(SelectSeq(Field(items, "reviews"), ValidReviews)),
         totalResults |-> extractTotalResults(page),
         firstPageCount |-> Len(items)]

----------------------------------------------------------------------------
(* calculateScores                                                         *)

calculatePopularity_Strict(totalResults) ==
    IF JsLt(totalResults, 1000) THEN [score |-> "green", value |-> 100]
    ELSE IF JsLe(totalResults, 3000) THEN [score |-> "yellow", value |-> 50]
    ELSE [score |-> "red", value |-> 0]

\* lines 243-251
calculatePopularity(totalResults) ==
    IF JsLe(totalResults, 1000) THEN [score |-> "green", value |-> 100]
    ELSE IF JsLe(totalResults, 3000) THEN [score |-> "yellow", value |-> 50]
    ELSE [score |-> "red", value |-> 0]

IsProfitable_NoRankFloor(item) ==
    JsLe(item.bsr, 30000) /\ JsLe(item.reviews, 200)

\* lines 259-263: the filter predicate
IsProfitable(item) ==
    JsGt(item.bsr, 0) /\ JsLe(item.bsr, 30000) /\ JsLe(item.reviews, 200)

\* lines 257-272
calculateProfitability(items) ==
    LET profitableBooks == Len(SelectSeq(items, IsProfitable))
    IN  IF profitableBooks >= 6
            THEN [score |-> "green", value |-> 100, count |-> profitableBooks]
        ELSE IF profitableBooks >= 3
            THEN [score |-> "yellow", value |-> 50, count |-> profitableBooks]
        ELSE [score |-> "red", value |-> 0, count |-> profitableBooks]

IsCompetitive_Strict(item) == JsGt(item.reviews, 500)

\* line 280: the filter predicate
IsCompetitive(item) == JsGe(item.reviews, 500)

\* lines 278-289
calculateCompetition(items) ==
    LET competitiveBooks == Len(SelectSeq(items, IsCompetitive))
    IN  IF competitiveBooks <= 3
            THEN [score |-> "green", value |-> 100, count |-> competitiveBooks]
        ELSE IF competitiveBooks <= 6
            THEN [score |-> "yellow", value |-> 50, count |-> competitiveBooks]
        ELSE [score |-> "red", value |-> 0, count |-> competitiveBooks]

overallScoreOf_Floor(popularity, profitability, competition) ==
    (popularity.value + profitability.value + competition.value) \div 3

\* line 297
overallScoreOf(popularity, profitability, competition) ==
    MathRound(popularity.value + profitability.value + competition.value, 3)

\* lines 292-304
calculateScores(data) ==
    LET popularity == calculatePopularity(data.totalResults)
        profitability == calculateProfitability(data.items)
        competition == calculateCompetition(data.items)
    IN  [popularity |-> popularity,
         profitability |-> profitability,
         competition |-> competition,
         overallScore |-> overallScoreOf(popularity, profitability, competition)]

----------------------------------------------------------------------------
(* Bounded inputs.                                                         *)

MaxScoreBase == 3
MaxScoreItems == 13
MaxPageBase == 2
MaxFound == 21
MaxPhrases == 2

\* The sequences over S of length 1..m.
Bases(S, m) == UNION {[1..k -> S] : k \in 1..m}

\* The sequence of length n that repeats base.
Cycle(base, n) == [i \in 1..n |-> base[((i - 1) % Len(base)) + 1]]

\* The phrases joined by one blank.
RECURSIVE Join(_)
Join(seqs) ==
    IF seqs = <<>> THEN <<>>
    ELSE IF Len(seqs) = 1 THEN seqs[1]
    ELSE Head(seqs) \o <<Tok("sp")>> \o Join(Tail(seqs))

Book(bsr, reviews) ==
    [title |-> <<"B", "o", "o", "k", "s">>, asin |-> "N/A", price |-> 0,
     bsr |-> bsr, rating |-> 0, reviews |-> reviews]

ScoreItems ==
    {Book(30000, 200), Book(30001, 200), Book(0, 0), Book(1, 201),
     Book(1, 500), Book(NoBsr, 499)}

ScoreTotals == {0, 1000, 1001, 3000, 3001}

ScoreInputs ==
    {[totalResults |-> t, items |-> Cycle(b, n)] :
        t \in ScoreTotals, b \in Bases(ScoreItems, MaxScoreBase), n \in 0..MaxScoreItems}

\* Number lexemes of the listing text.
L0 == <<"0">>
L12 == <<"1", "2">>
L42 == <<"4", "2">>
L500 == <<"5", "0", "0">>
L999 == <<"9", "9", "9">>
L1234 == <<"1", ",", "2", "3", "4">>
L5000 == <<"5", ",", "0", "0", "0">>
L999999 == <<"9", "9", "9", ",", "9", "9", "9">>
L150 == <<"1", "5", "0">>
L200 == <<"2", "0", "0">>
L1000 == <<"1", ",", "0", "0", "0">>
L50000 == <<"5", "0", ",", "0", "0", "0">>
LComma == <<",">>

\* "Best Sellers Rank: #n"
PhraseBsr(n) == <<Tok("BSR"), Tok("w"), Tok("sp"), Tok("#"), Num(n)>>
\* "#n in Books"
PhraseInBooks(n) == <<Tok("#"), Num(n), Tok("sp"), Tok("inBooks")>>
\* "#n"
PhraseHash(n) == <<Tok("#"), Num(n)>>
\* "(n ratings)"
PhraseParen(n) == <<Tok("("), Num(n), Tok("sp"), Tok("ratings"), Tok(")")>>
\* "n global ratings"
PhraseGlobal(n) == <<Num(n), Tok("sp"), Tok("global"), Tok("sp"), Tok("ratings")>>
\* "n reviews"
PhraseBare(n) == <<Num(n), Tok("sp"), Tok("ratings")>>

Phrases ==
    {PhraseBsr(L500), PhraseBsr(L0), PhraseHash(L999), PhraseHash(LComma),
     PhraseInBooks(L999999), PhraseInBooks(L42),
     <<Tok("Amazon"), Tok("sp"), Tok("BSR"), Tok("nl")>>,
     PhraseParen(L1234), PhraseParen(L0), PhraseGlobal(L5000), PhraseBare(L12),
     <<Tok("w")>>}

Texts == {<<>>} \cup {Join(ps) : ps \in Bases(Phrases, MaxPhrases)}

\* "4.5 out of 5 stars", "9.5 out of 10", "Prime"
Label45 ==
    <<Dec(<<"4", ".", "5">>), Tok("sp"), Tok("out"), Tok("sp"), Tok("of"), Tok("sp"),
      Dec(<<"5">>), Tok("sp"), Tok("w")>>
Label95 ==
    <<Dec(<<"9", ".", "5">>), Tok("sp"), Tok("out"), Tok("sp"), Tok("of"), Tok("sp"),
      Dec(<<"1", "0">>)>>
LabelPrime == <<Tok("w")>>

\* The price, rating-label and data-asin parts of an element.
Decors ==
    {[asin |-> "B00TEST", priceWhole |-> <<<<Dec(<<"1", "2", ".">>)>>>>, iconAlt |-> <<Label45>>],
     [asin |-> Undefined, priceWhole |-> <<>>, iconAlt |-> <<>>],
     [asin |-> "", priceWhole |-> <<<<Tok("w")>>>>, iconAlt |-> <<LabelPrime>>],
     [asin |-> "B00TEST", priceWhole |-> <<<<Tok("w"), Dec(<<".">>)>>>>, iconAlt |-> <<LabelPrime, Label95>>]}

PlainDecor == [asin |-> Undefined, priceWhole |-> <<>>, iconAlt |-> <<>>]

TBooks == <<"B", "o", "o", "k", "s">>
TBook == <<"B", "o", "o", "k">>
TTales == <<" ", " ", "T", "a", "l", "e", "s", " ">>
TCook == <<" ", "C", "o", "o", "k", " ", " ">>
TNormal == <<"N", "o", "r", "m", "a", "l">>
TLinked == <<"L", "i", "n", "k", "e", "d">>

\* The heading of an element: the 'h2 a span', 'h2 .a-text-normal' and 'h2 a'
\* selections.
Headings ==
    {[h2aSpan |-> <<TBooks>>, h2Normal |-> <<TBooks>>, h2a |-> <<TBooks>>],
     [h2aSpan |-> <<TBook>>, h2Normal |-> <<>>, h2a |-> <<TBook>>],
     [h2aSpan |-> <<TTales, TBook>>, h2Normal |-> <<>>, h2a |-> <<TTales \o TBook>>],
     [h2aSpan |-> <<TCook>>, h2Normal |-> <<TNormal>>, h2a |-> <<TCook>>],
     [h2aSpan |-> <<>>, h2Normal |-> <<TNormal>>, h2a |-> <<>>],
     [h2aSpan |-> <<>>, h2Normal |-> <<>>, h2a |-> <<TLinked>>],
     [h2aSpan |-> <<>>, h2Normal |-> <<>>, h2a |-> <<>>]}

Element(heading, decor, text) ==
    [h2aSpan |-> heading.h2aSpan, h2Normal |-> heading.h2Normal, h2a |-> heading.h2a,
     asin |-> decor.asin, priceWhole |-> decor.priceWhole, iconAlt |-> decor.iconAlt,
     text |-> text]

\* "1-16 of over 4,000 results", "1-16 of 800 results", "over 4,000 results"
Banner4000 ==
    <<Num(<<"1">>), Tok("w"), Num(<<"1", "6">>), Tok("sp"), Tok("of"), Tok("sp"),
      Tok("over"), Tok("sp"), Num(<<"4", ",", "0", "0", "0">>), Tok("sp"), Tok("results")>>
Banner800 ==
    <<Num(<<"1">>), Tok("w"), Num(<<"1", "6">>), Tok("sp"), Tok("of"), Tok("sp"),
      Num(<<"8", "0", "0">>), Tok("sp"), Tok("results")>>
BannerNoOf ==
    <<Tok("over"), Tok("sp"), Num(<<"4", ",", "0", "0", "0">>), Tok("sp"), Tok("results")>>

Banners ==
    {[infoBar |-> Banner4000, infoSection |-> Banner800],
     [infoBar |-> <<>>, infoSection |-> Banner800],
     [infoBar |-> <<>>, infoSection |-> <<>>],
     [infoBar |-> BannerNoOf, infoSection |-> Banner800]}

Page(banner, results) ==
    [infoBar |-> banner.infoBar, infoSection |-> banner.infoSection, results |-> results]

BooksHeading == [h2aSpan |-> <<TBooks>>, h2Normal |-> <<>>, h2a |-> <<TBooks>>]

\* One listing with a valid heading and every combination of decor and text.
FieldPages ==
    {Page([infoBar |-> Banner4000, infoSection |-> <<>>],
          <<Element(BooksHeading, d, t)>>) :
        d \in Decors, t \in Texts}

\* Up to MaxFound listings that differ in their headings.
HeadingPages ==
    {Page([infoBar |-> <<>>, infoSection |-> Banner800], Cycle(base, n)) :
        base \in Bases({Element(h, PlainDecor, <<>>) : h \in Headings}, MaxPageBase),
        n \in 0..MaxFound}


\* One listing under every banner.
BannerPages == {Page(b, <<Element(BooksHeading, PlainDecor, <<>>)>>) : b \in Banners}

ScrapeInputs == FieldPages \cup HeadingPages \cup BannerPages
TalesHeading == [h2aSpan |-> <<TTales>>, h2Normal |-> <<>>, h2a |-> <<TTales>>]
ShortHeading == [h2aSpan |-> <<TBook>>, h2Normal |-> <<>>, h2a |-> <<TBook>>]

\* "1-16 of over 4,000 results" and two listings: rank #200 with 150 ratings,
\* rank #50,000 with 1,000 ratings.
ExamplePage ==
    Page([infoBar |-> Banner4000, infoSection |-> <<>>],
         <<Element(BooksHeading, PlainDecor, Join(<<PhraseBsr(L200), PhraseParen(L150)>>)),
           Element(TalesHeading, PlainDecor, Join(<<PhraseBsr(L50000), PhraseParen(L1000)>>))>>)

\* No banner and one listing whose title is too short.
SparsePage ==
    Page([infoBar |-> <<>>, infoSection |-> <<>>],
         <<Element(ShortHeading, PlainDecor, <<>>)>>)

ServerPages == {ExamplePage, SparsePage}

NumRequests == 2
Requests == 1..NumRequests
Keywords == {Undefined, "", "cooking"}

----------------------------------------------------------------------------
(* SpecScores: calculateScores applied to one data record.                 *)

NoScores == <<>>
NoData == <<>>
NoPage == <<>>

ScoresIdle == sPc = "off" /\ sData = NoData /\ sScores = NoScores
ScrapeIdle == xPc = "off" /\ xPage = NoPage /\ xData = NoData

ServerIdle ==
    /\ pc = <<>> /\ keyword = <<>> /\ browser = <<>> /\ open = {} /\ nextId = 1
    /\ pending = <<>> /\ response = <<>> /\ launches = <<>> /\ scored = <<>>
    /\ sent = <<>>

InitScores ==
    /\ sPc = "in" /\ sData \in ScoreInputs /\ sScores = NoScores
    /\ ScrapeIdle /\ ServerIdle

Score ==
    /\ sPc = "in"
    /\ sScores' = calculateScores(sData)
    /\ sPc' = "out"
    /\ UNCHANGED <<sData, scrapeVars, serverVars>>

NextScores == Score

SpecScores == InitScores /\ [][NextScores]_vars

----------------------------------------------------------------------------
(* SpecScrape: the page-parsing part of scrapeAmazonData on one page.      *)

InitScrape ==
    /\ xPc = "in" /\ xPage \in ScrapeInputs /\ xData = NoData
    /\ ScoresIdle /\ ServerIdle

Scrape ==
    /\ xPc = "in"
    /\ xData' = parsePage(xPage)
    /\ xPc' = "out"
    /\ UNCHANGED <<xPage, scoreVars, serverVars>>

NextScrape == Scrape

SpecScrape == InitScrape /\ [][NextScrape]_vars

----------------------------------------------------------------------------
(* Spec: the /api/analyze handler and scrapeAmazonData, one process per    *)
(* request, interleaved at the awaits.                                     *)

NoBrowser == 0
NoResponse == [status |-> 0]
NoOutcome == [kind |-> "none"]

Returned(data) == [kind |-> "returned", data |-> data]
Thrown(message) == [kind |-> "thrown", message |-> message]

KeywordMissing_UndefinedOnly(kw) == kw = Undefined

\* line 21: !keyword
KeywordMissing(kw) == kw = Undefined \/ kw = ""

Init ==
    /\ pc = [r \in Requests |-> "start"]
    /\ keyword = [r \in Requests |-> Undefined]
    /\ browser = [r \in Requests |-> NoBrowser]
    /\ open = {}
    /\ nextId = 1
    /\ pending = [r \in Requests |-> NoOutcome]
    /\ response = [r \in Requests |-> NoResponse]
    /\ launches = [r \in Requests |-> 0]
    /\ scored = [r \in Requests |-> FALSE]
    /\ sent = [r \in Requests |-> 0]
    /\ ScoresIdle /\ ScrapeIdle

\* An await of scrapeAmazonData's try block resolves: on to the next call.
Resolve(r, from, to) ==
    /\ pc[r] = from
    /\ pc' = [pc EXCEPT ![r] = to]
    /\ UNCHANGED <<keyword, browser, open, nextId, pending, response, launches, scored, sent,
                   scoreVars, scrapeVars>>

\* An await of the try block rejects: catch (line 229) rethrows, finally is next.
Reject(r, from, message) ==
    /\ pc[r] = from
    /\ pending' = [pending EXCEPT ![r] = Thrown(message)]
    /\ pc' = [pc EXCEPT ![r] = "finally"]
    /\ UNCHANGED <<keyword, browser, open, nextId, response, launches, scored, sent,
                   scoreVars, scrapeVars>>

\* lines 18-54: the request arrives; the handler validates the keyword and,
\* if it is present, calls scrapeAmazonData, which calls puppeteer.launch.
Receive(r, kw) ==
    /\ pc[r] = "start"
    /\ keyword' = [keyword EXCEPT ![r] = kw]
    /\ IF KeywordMissing(kw)
          THEN /\ response' = [response EXCEPT ![r] =
                                  [status |-> 400, error |-> "Keyword is required"]]
               /\ sent' = [sent EXCEPT ![r] = @ + 1]
               /\ pc' = [pc EXCEPT ![r] = "done"]
               /\ UNCHANGED launches
          ELSE /\ launches' = [launches EXCEPT ![r] = @ + 1]
               /\ pc' = [pc EXCEPT ![r] = "launch"]
               /\ UNCHANGED <<response, sent>>
    /\ UNCHANGED <<browser, open, nextId, pending, scored, scoreVars, scrapeVars>>

\* line 54: puppeteer.launch resolves with a new browser
LaunchOk(r) ==
    /\ pc[r] = "launch"
    /\ browser' = [browser EXCEPT ![r] = nextId]
    /\ open' = open \cup {nextId}
    /\ nextId' = nextId + 1
    /\ pc' = [pc EXCEPT ![r] = "newPage"]
    /\ UNCHANGED <<keyword, pending, response, launches, scored, sent,
                   scoreVars, scrapeVars>>

LaunchFail(r) == Reject(r, "launch", "Failed to launch the browser process")

\* line 67
NewPageOk(r) == Resolve(r, "newPage", "setUserAgent")
NewPageFail(r) == Reject(r, "newPage", "Protocol error")

\* line 70
SetUserAgentOk(r) == Resolve(r, "setUserAgent", "setViewport")
SetUserAgentFail(r) == Reject(r, "setUserAgent", "Protocol error")

\* line 73
SetViewportOk(r) == Resolve(r, "setViewport", "goto")
SetViewportFail(r) == Reject(r, "setViewport", "Protocol error")

\* lines 79-82
GotoOk(r) == Resolve(r, "goto", "waitForSelector")
GotoTimeout(r) == Reject(r, "goto", "Navigation timeout of 30000 ms exceeded")

\* line 85
WaitForSelectorOk(r) == Resolve(r, "waitForSelector", "content")
WaitForSelectorTimeout(r) ==
    Reject(r, "waitForSelector", "Waiting for selector failed: 10000ms exceeded")

\* lines 88-227: page.content resolves; the page is parsed and the data returned
ContentOk(r, page) ==
    /\ pc[r] = "content"
    /\ pending' = [pending EXCEPT ![r] = Returned(parsePage(page))]
    /\ pc' = [pc EXCEPT ![r] = "finally"]
    /\ UNCHANGED <<keyword, browser, open, nextId, response, launches, scored, sent,
                   scoreVars, scrapeVars>>

ContentFail(r) == Reject(r, "content", "Protocol error")

Finally_CloseOnSuccessOnly(r) ==
    /\ pc[r] = "finally"
    /\ open' = IF browser[r] # NoBrowser /\ pending[r].kind = "returned"
                THEN open \ {browser[r]} ELSE open
    /\ pc' = [pc EXCEPT ![r] = "respond"]
    /\ UNCHANGED <<keyword, browser, nextId, pending, response, launches, scored, sent,
                   scoreVars, scrapeVars>>

\* lines 232-236: if (browser) await browser.close()
Finally(r) ==
    /\ pc[r] = "finally"
    /\ open' = IF browser[r] # NoBrowser THEN open \ {browser[r]} ELSE open
    /\ pc' = [pc EXCEPT ![r] = "respond"]
    /\ UNCHANGED <<keyword, browser, nextId, pending, response, launches, scored, sent,
                   scoreVars, scrapeVars>>

\* lines 31-37 (scrapeAmazonData returned) and 39-45 (it threw)
Respond(r) ==
    /\ pc[r] = "respond"
    /\ IF pending[r].kind = "returned"
          THEN /\ response' = [response EXCEPT ![r] =
                     [status |-> 200, keyword |-> keyword[r]]
                         @@ pending[r].data
                         @@ [scores |-> calculateScores(pending[r].data)]]
               /\ scored' = [scored EXCEPT ![r] = TRUE]
          ELSE /\ response' = [response EXCEPT ![r] =
                     [status |-> 500, error |-> "Failed to analyze keyword",
                      message |-> pending[r].message]]
               /\ UNCHANGED scored
    /\ sent' = [sent EXCEPT ![r] = @ + 1]
    /\ pc' = [pc EXCEPT ![r] = "done"]
    /\ UNCHANGED <<keyword, browser, open, nextId, pending, launches, scoreVars, scrapeVars>>

Next ==
    \E r \in Requests :
         \/ \E kw \in Keywords : Receive(r, kw)
         \/ LaunchOk(r) \/ LaunchFail(r)
         \/ NewPageOk(r) \/ NewPageFail(r)
         \/ SetUserAgentOk(r) \/ SetUserAgentFail(r)
         \/ SetViewportOk(r) \/ SetViewportFail(r)
         \/ GotoOk(r) \/ GotoTimeout(r)
         \/ WaitForSelectorOk(r) \/ WaitForSelectorTimeout(r)
         \/ \E page \in ServerPages : ContentOk(r, page)
         \/ ContentFail(r)
         \/ Finally(r)
         \/ Respond(r)

Spec == Init /\ [][Next]_vars

----------------------------------------------------------------------------
(* Properties.                                                             *)

Reverse(seq) == [i \in DOMAIN seq |-> seq[Len(seq) + 1 - i]]

TierOf(score) == <<score.score, score.value>>

\* C1: a browser a request launched is closed before that request's response
\* (success or error) is produced; no browser belongs to two requests; every
\* open browser belongs to a request still in flight; once every request has
\* completed no browser is open.
C1_SessionReleasedBeforeResponse ==
    /\ \A r \in Requests : response[r].status # 0 => browser[r] \notin open
    /\ \A r1, r2 \in Requests :
          r1 # r2 /\ browser[r1] # NoBrowser => browser[r1] # browser[r2]
    /\ \A b \in open : \E r \in Requests : browser[r] = b /\ pc[r] # "done"
    /\ (\A r \in Requests : pc[r] = "done") => open = {}

\* A request whose navigation timed out has answered with the error and its
\* browser is closed, while another request still holds an open browser.
C1_Witness ==
    \E r1, r2 \in Requests :
        /\ response[r1].status = 500
        /\ response[r1].message = "Navigation timeout of 30000 ms exceeded"
        /\ browser[r1] # NoBrowser /\ browser[r1] \notin open
        /\ browser[r2] \in open

\* C2: a completed request has sent exactly one response: 400 exactly when the
\* keyword is missing or empty, with no launch and no scoring; 500 carrying the
\* thrown message exactly when scrapeAmazonData threw, with no items and no
\* scores and exactly one launch; otherwise 200 with the items, the aggregates
\* and the scores. No request launches twice or answers twice.
C2_ThreeOutcomes ==
    \A r \in Requests :
        /\ sent[r] <= 1 /\ launches[r] <= 1
        /\ pc[r] # "done" => sent[r] = 0 /\ response[r] = NoResponse
        /\ pc[r] = "done" =>
            /\ sent[r] = 1
            /\ response[r].status \in {400, 500, 200}
            /\ response[r].status = 400 <=> keyword[r] \in {Undefined, ""}
            /\ response[r].status = 400 =>
                  /\ launches[r] = 0 /\ browser[r] = NoBrowser /\ ~scored[r]
                  /\ pending[r] = NoOutcome
            /\ response[r].status = 500 <=> pending[r].kind = "thrown"
            /\ response[r].status = 500 =>
                  /\ response[r].message = pending[r].message
                  /\ DOMAIN response[r] = {"status", "error", "message"}
                  /\ launches[r] = 1 /\ ~scored[r]
            /\ response[r].status = 200 =>
                  /\ pending[r].kind = "returned"
                  /\ launches[r] = 1 /\ scored[r]
                  /\ response[r].keyword = keyword[r]
                  /\ response[r].items = pending[r].data.items
                  /\ response[r].totalResults = pending[r].data.totalResults
                  /\ response[r].firstPageCount = Len(response[r].items)
                  /\ {"avgBSR", "avgRating", "avgReviews"} \subseteq DOMAIN response[r]
                  /\ response[r].scores = calculateScores(pending[r].data)

\* One request ended in a fetch error after its single launch, another in a
\* result record.
C2_Witness ==
    \E r1, r2 \in Requests :
        /\ pc[r1] = "done" /\ response[r1].status = 500 /\ launches[r1] = 1
        /\ response[r1].message = "Waiting for selector failed: 10000ms exceeded"
        /\ pc[r2] = "done" /\ response[r2].status = 200
        /\ response[r2].scores.overallScore = 33

\* C3: popularity is green/100 iff totalResults <= 1000, yellow/50 iff it is in
\* 1001..3000, red/0 iff it is > 3000.
C3_PopularityTiers ==
    sPc = "out" =>
        LET t == sData.totalResults
            p == sScores.popularity
        IN  /\ p = [score |-> "green", value |-> 100] <=> t <= 1000
            /\ p = [score |-> "yellow", value |-> 50] <=> (1001 <= t /\ t <= 3000)
            /\ p = [score |-> "red", value |-> 0] <=> t > 3000

C3_Witness ==
    /\ sPc = "out" /\ sData.totalResults = 1000
    /\ sScores.popularity = [score |-> "green", value |-> 100]

\* C4: profitability.count is the number of items with 0 < bsr <= 30000 and
\* reviews <= 200, whatever the order of the items; the tier is green/100 iff
\* count >= 6, yellow/50 iff count is 3..5, red/0 iff count < 3.
C4_ProfitabilityCount ==
    sPc = "out" =>
        LET items == sData.items
            n == Cardinality({i \in DOMAIN items :
                    0 < items[i].bsr /\ items[i].bsr <= 30000 /\ items[i].reviews <= 200})
            p == sScores.profitability
        IN  /\ p.count = n
            /\ TierOf(p) = <<"green", 100>> <=> n >= 6
            /\ TierOf(p) = <<"yellow", 50>> <=> (3 <= n /\ n <= 5)
            /\ TierOf(p) = <<"red", 0>> <=> n < 3
            /\ calculateProfitability(Reverse(items)) = p

\* Six profitable items among others, one of them with rank 0.
C4_Witness ==
    /\ sPc = "out" /\ sScores.profitability.count = 6
    /\ Len(sData.items) > 6
    /\ \E i \in DOMAIN sData.items : sData.items[i].bsr = 0

\* C5: competition.count is the number of items with reviews >= 500, whatever
\* the order of the items; the tier is green/100 iff count <= 3, yellow/50 iff
\* count is 4..6, red/0 iff count >= 7.
C5_CompetitionCount ==
    sPc = "out" =>
        LET items == sData.items
            n == Cardinality({i \in DOMAIN items : items[i].reviews >= 500})
            c == sScores.competition
        IN  /\ c.count = n
            /\ TierOf(c) = <<"green", 100>> <=> n <= 3
            /\ TierOf(c) = <<"yellow", 50>> <=> (4 <= n /\ n <= 6)
            /\ TierOf(c) = <<"red", 0>> <=> n >= 7
            /\ calculateCompetition(Reverse(items)) = c

\* Seven competitive items among others with 499 reviews.
C5_Witness ==
    /\ sPc = "out" /\ sScores.competition.count = 7
    /\ TierOf(sScores.competition) = <<"red", 0>>
    /\ \E i \in DOMAIN sData.items : sData.items[i].reviews = 499

\* C6: the three values are in {0, 50, 100} and overallScore is the integer n
\* with n - 1/2 <= (their sum) / 3 < n + 1/2, in 0..100.
C6_OverallScore ==
    sPc = "out" =>
        LET sum == sScores.popularity.value + sScores.profitability.value
                       + sScores.competition.value
            n == sScores.overallScore
        IN  /\ {sScores.popularity.value, sScores.profitability.value,
                sScores.competition.value} \subseteq {0, 50, 100}
            /\ n \in 0..100
            /\ 6 * n - 3 <= 2 * sum /\ 2 * sum < 6 * n + 3

\* 0 + 50 + 0: the mean 16.67 rounds up to 17.
C6_Witness ==
    /\ sPc = "out" /\ sScores.overallScore = 17
    /\ sScores.popularity.value = 0 /\ sScores.profitability.value = 50
    /\ sScores.competition.value = 0

\* The listings among the first min(found, 20) whose extracted title has at
\* least 5 characters.
KeptIndices(bookElements) ==
    {i \in DOMAIN bookElements : i <= 20 /\ Len(extractTitle(bookElements[i])) >= 5}

\* The place in the item list of the kept listing i: its rank among the kept.
ItemIndex(kept, i) == Cardinality({k \in kept : k <= i})

\* C7: the items are, in page order, exactly the listings among the first
\* min(found, 20) whose extracted, trimmed title has length >= 5; every other
\* listing contributes nothing; firstPageCount is the number of items, at
\* most 20.
C7_ItemsAreOrderedTitleFilter ==
    xPc = "out" =>
        LET els == xPage.results
            items == xData.items
            kept == KeptIndices(els)
        IN  /\ Len(items) = Cardinality(kept)
            /\ \A i \in kept : items[ItemIndex(kept, i)].title = extractTitle(els[i])
            /\ xData.firstPageCount = Len(items)
            /\ xData.firstPageCount <= 20

\* More than 20 listings, some of them dropped for a short title.
C7_Witness ==
    /\ xPc = "out" /\ Len(xPage.results) > 20
    /\ Len(xData.items) > 0 /\ Len(xData.items) < 20
    /\ \E j \in DOMAIN xData.items : xData.items[j].bsr = NoBsr

\* The title the three strategies would give, the first that finds a node
\* winning.
FallbackTitle(element) ==
    IF element.h2aSpan # <<>> THEN Trim(element.h2aSpan[1])
    ELSE IF element.h2Normal # <<>> THEN Trim(element.h2Normal[1])
    ELSE IF element.h2a # <<>> THEN Trim(element.h2a[1])
    ELSE <<>>

\* C8: a listing among the first 20 whose title, taken from the first of the
\* three strategies that finds a node, has trimmed length >= 5 is in the item
\* list with that title.
C8_TitleFallback ==
    xPc = "out" =>
        \A i \in DOMAIN xPage.results :
            i <= 20 /\ Len(FallbackTitle(xPage.results[i])) >= 5 =>
                \E j \in DOMAIN xData.items :
                    xData.items[j].title = FallbackTitle(xPage.results[i])

\* The number the first matching review strategy captures, 0 when none matches.
FirstReviewMatch(text) ==
    IF parenPattern(text).found THEN parseInt(StripCommas(parenPattern(text).g1))
    ELSE IF globalPattern(text).found THEN parseInt(StripCommas(globalPattern(text).g1))
    ELSE IF reviewPattern(text).found THEN parseInt(StripCommas(reviewPattern(text).g1))
    ELSE 0

\* C9: an item's reviews is the number captured by the first of the strategies
\* parenthesized, global, bare that matches its listing's text, and 0 when none
\* matches.
C9_FirstReviewStrategyWins ==
    xPc = "out" =>
        LET kept == KeptIndices(xPage.results)
        IN  \A i \in kept :
                xData.items[ItemIndex(kept, i)].reviews =
                    FirstReviewMatch(xPage.results[i].text)

AnyBsrPatternMatches(text) ==
    \E k \in DOMAIN bsrPatterns(text) : bsrPatterns(text)[k].found

\* C10: every item has an integer bsr >= 1 that is 999999 only when no rank
\* pattern matched, and a rating in [0, 5] (0..50 tenths) that is 0 when no
\* rating label was parsed.
C10_ItemDataModel ==
    xPc = "out" =>
        \A i \in KeptIndices(xPage.results) :
            LET item == xData.items[ItemIndex(KeptIndices(xPage.results), i)]
                element == xPage.results[i]
            IN  /\ item.bsr >= 1
                /\ item.bsr = NoBsr => ~AnyBsrPatternMatches(element.text)
                /\ 0 <= item.rating /\ item.rating <= 50
                /\ ~ratingPattern(TextOf(element.iconAlt)).found => item.rating = 0

====
